---- MODULE Spec2Model ----
(***************************************************************************)
(* srctl route programming: the walk of a PathRequest document            *)
(* (srctl/api.py) and the two dataplane backends                           *)
(* (srctl/route_programmer.py).                                            *)
(*                                                                         *)
(* Text values.  A colon-separated string (a segment identifier, a bsid)   *)
(* is represented by the list of its parts, str.split(':'): the string     *)
(* "fc00:0:1::" is <<"fc00","0","1","","">> and the empty string is <<"">>.*)
(* The map between a string and its parts is one-to-one, so ':'.join is    *)
(* the same list read as a string again.  A part is one of GroupTokens.    *)
(***************************************************************************)
EXTENDS Integers, Sequences, FiniteSets, TLC

VARIABLES
    doc,          \* the PathRequest document given to apply and delete
    euid_root,    \* os.geteuid() == 0 for the process
    answers,      \* the path-computation service: graph id -> response
    flaky,        \* the dataplane of the run is one whose operations may fail
    op,           \* the call in progress or last ended: "none", "apply", "delete"
    status,       \* "idle", "walking", "returned" or "raised"
    error,        \* the exception a raised call ended with, <<>> otherwise
    pos,          \* the route the walk is at: [v, af, i]
    results,      \* the Outcome list of the call
    kernel,       \* the kernel routing tables: a set of routes
    policies,     \* the software dataplane's SR policies
    steering,     \* the software dataplane's steering rules
    log,          \* the operations the call has issued, in order
    calls,        \* the number of calls made
    faults,       \* the number of dataplane faults injected
    dp0,          \* the dataplane when the call began
    prev,         \* the call before this one: <<>> or <<[op, status, results, dp0, dp1]>>
    usid_in,      \* codec run: the identifier given to _expand_srv6_usid
    usid_out,     \* codec run: the results so far, <<>>, <<e1>> or <<e1, e2>>
    codec         \* codec run: which backend's copy of the codec is used

walk_vars == <<doc, euid_root, answers, flaky, op, status, error, pos, results, kernel,
               policies, steering, log, calls, faults, dp0, prev>>

codec_vars == <<usid_in, usid_out, codec>>

vars == <<walk_vars, codec_vars>>

-----------------------------------------------------------------------------
(* Bounds of the model *)

MaxGroups == 8        \* longest identifier, in colon-separated parts
MaxRoutes == 2        \* most routes in a document
MaxCalls == 2         \* most calls of apply and delete in a run
MaxFaults == 1        \* most dataplane operations that fail in a run

-----------------------------------------------------------------------------
(* Segment Identifier Codec *)

\* the parts the identifiers of a codec run are written with
GroupTokens == {"", "0", "fc00"}

\* parts of 1 to 4 hexadecimal digits, what ipaddress._parse_hextet accepts;
\* any other part ("", "zz") is refused
HexTokens == {"0", "1", "fc00", "2001", "db8"}

\* the zero group the codec pads with
ZeroGroup == "0"

\* the number of groups of a full identifier
FullGroups == 8

\* the index of the last non-empty part, 0 when every part is empty
LastNonEmpty(parts) ==
    LET idx == {i \in 1..Len(parts) : parts[i] # ""}
    IN  IF idx = {} THEN 0 ELSE CHOOSE i \in idx : \A j \in idx : j <= i

\* usid.rstrip(':') on the parts of usid: trailing empty parts go; a string
\* of colons only (or the empty string) becomes the empty string
RStripColons(parts) ==
    IF LastNonEmpty(parts) = 0 THEN <<"">>
    ELSE SubSeq(parts, 1, LastNonEmpty(parts))

\* while len(parts) < 8: parts.append('0')
RECURSIVE PadParts(_)
PadParts(parts) ==
    IF Len(parts) < FullGroups THEN PadParts(Append(parts, ZeroGroup)) ELSE parts

\* mutant: the padding stops one group short
RECURSIVE PadPartsShort(_)
PadPartsShort(parts) ==
    IF Len(parts) < FullGroups - 1 THEN PadPartsShort(Append(parts, ZeroGroup))
    ELSE parts

Linux_expand_srv6_usid_short(usid) == PadPartsShort(RStripColons(usid))

\* LinuxRouteProgrammer._expand_srv6_usid
Linux_expand_srv6_usid(usid) == PadParts(RStripColons(usid))

\* VPPRouteProgrammer._expand_srv6_usid
VPP_expand_srv6_usid(usid) == PadParts(RStripColons(usid))

\* the interior indexes i (1 <= i <= len-2, 0-based) whose part is empty
InteriorEmpty(parts) == {i \in 2..(Len(parts) - 1) : parts[i] = ""}

\* ipaddress.IPv6Address(text) raises no error: the stdlib's parse of the parts
\* (at least 3 and at most 9 parts, at most one '::', a leading or trailing
\* ':' only as part of '::', every remaining part 1 to 4 hexadecimal digits)
IsIPv6Address(parts) ==
    /\ parts # <<"">>
    /\ Len(parts) >= 3
    /\ Len(parts) <= FullGroups + 1
    /\ Cardinality(InteriorEmpty(parts)) <= 1
    /\ IF InteriorEmpty(parts) # {}
       THEN LET skip == CHOOSE i \in InteriorEmpty(parts) : TRUE
                hi0  == skip - 1
                lo0  == Len(parts) - skip
                hi   == IF parts[1] = "" THEN hi0 - 1 ELSE hi0
                lo   == IF parts[Len(parts)] = "" THEN lo0 - 1 ELSE lo0
            IN  /\ (parts[1] = "" => hi = 0)
                /\ (parts[Len(parts)] = "" => lo = 0)
                /\ FullGroups - (hi + lo) >= 1
                /\ \A i \in 1..hi : parts[i] \in HexTokens
                /\ \A i \in (Len(parts) - lo + 1)..Len(parts) : parts[i] \in HexTokens
       ELSE /\ Len(parts) = FullGroups
            /\ \A i \in 1..Len(parts) : parts[i] \in HexTokens

\* ipaddress.IPv6Address(text).packed: the eight 16-bit groups of the address,
\* an elided run written out as zero groups
Packed(parts) ==
    IF InteriorEmpty(parts) = {} THEN parts
    ELSE LET skip == CHOOSE i \in InteriorEmpty(parts) : TRUE
             hi0  == skip - 1
             lo0  == Len(parts) - skip
             hi   == IF parts[1] = "" THEN hi0 - 1 ELSE hi0
             lo   == IF parts[Len(parts)] = "" THEN lo0 - 1 ELSE lo0
         IN  SubSeq(parts, 1, hi)
             \o [i \in 1..(FullGroups - (hi + lo)) |-> ZeroGroup]
             \o SubSeq(parts, Len(parts) - lo + 1, Len(parts))

\* the identifier strings of at most MaxGroups parts
UsidStrings == UNION {[1..n -> GroupTokens] : n \in 1..MaxGroups}

-----------------------------------------------------------------------------
(* Optional values.  A key a mapping may lack, or a value that may be None,  *)
(* is <<>> when missing and <<v>> when present.                              *)

NoValue == <<>>
Some(v) == <<v>>
Has(x) == x # <<>>
Val(x) == x[1]

\* Python's `not x` for an optional string: None and '' are both falsy
NotText(x) == ~Has(x) \/ Val(x) = ""

\* the same for a colon-separated string, whose empty value is <<"">>
NotParts(x) == ~Has(x) \/ Val(x) = <<"">>

-----------------------------------------------------------------------------
(* Destination prefixes.  The text "a.b.c.d/n" is [addr |-> <<a,b,c,d>>,     *)
(* len |-> n]; an IPv6 prefix has the eight 16-bit groups of its address.    *)

Pow2(n) == 2 ^ n

\* the bit width of one element of an address of that many elements
ElemBits(addr) == IF Len(addr) = 4 THEN 8 ELSE 16

\* bit k (1 = most significant) of value v of width w
BitOf(v, k, w) == (v \div Pow2(w - k)) % 2

\* the empty string given as a prefix: no address, no length
EmptyPrefix == [addr |-> <<>>, len |-> 0]

\* `not destination_prefix`: None and '' are both falsy
NotPrefix(prefix) == ~Has(prefix) \/ Val(prefix) = EmptyPrefix

\* the text is an address of one of the two families with a length in range
IsCidrText(p) ==
    /\ Len(p.addr) \in {4, FullGroups}
    /\ \A g \in 1..Len(p.addr) : p.addr[g] \in 0..(Pow2(ElemBits(p.addr)) - 1)
    /\ p.len \in 0..(Len(p.addr) * ElemBits(p.addr))

\* a bit of the address beyond the prefix length is set
HostBitsSet(p) ==
    \E g \in 1..Len(p.addr) : \E k \in 1..ElemBits(p.addr) :
        /\ (g - 1) * ElemBits(p.addr) + k > p.len
        /\ BitOf(p.addr[g], k, ElemBits(p.addr)) = 1

\* mutant: strict=False, the host bits are not looked at
IpNetworkLax(prefix) == Has(prefix) /\ IsCidrText(Val(prefix))

\* mutant: the prefix is taken as given, without parsing it
IpNetworkPresent(prefix) == Has(prefix)

\* ipaddress.ip_network(destination_prefix) raises no ValueError: the default
\* is strict, so a prefix with host bits set is refused, as is None
IpNetworkOk(prefix) ==
    /\ Has(prefix)
    /\ IsCidrText(Val(prefix))
    /\ ~HostBitsSet(Val(prefix))

\* the network ip_network returns for an accepted prefix; str(net) writes
\* the same address and length again
IpNetwork(prefix) == Val(prefix)

-----------------------------------------------------------------------------
(* Kernel backend: LinuxRouteProgrammer over pyroute2's IPRoute *)

\* the links of the host: IPRoute.link_lookup(ifname=...) gives the list of
\* the indexes of the links of that name
LinkLookup(ifname) == IF ifname = "eth0" THEN <<2>> ELSE <<>>

\* the routes of the kernel to that destination in that table
KernelMatches(k, table, dst) == {r \in k : r.table = table /\ r.dst = dst}

\* a result of program_route: the (success, message) pair, the dataplane
\* after it and the operations it issued
Outcome3(success, message, k, events, faulted) ==
    [success |-> success, message |-> message, kernel |-> k,
     events |-> events, faulted |-> faulted]

Ev(what, table) == [op |-> what, table |-> <<table>>, arg |-> <<>>]

\* the same operation when the call raised
EvRaised(what, table) == [op |-> what, table |-> <<table>>, arg |-> <<"raised">>]

\* mutant: the route is added to the main table, the default of kwargs.get
LinuxTableMain(table_id) == 254

\* table_id = kwargs.get('table_id', 254): the caller always passes table_id
LinuxTable(table_id) == table_id

\* mutant: the pre-delete is left out
KernelAfterDelKeep(k, table, dst, fault) == k

\* iproute.route('del', table, dst): the matching route goes; the call raises
\* when there is none, or when the kernel refuses (fault), and the caller
\* swallows that
KernelAfterDel(k, table, dst, fault) ==
    IF fault = "route_del" THEN k ELSE k \ KernelMatches(k, table, dst)

\* mutant: the encapsulation is built from the identifier as received
LinuxSegsRaw(srv6_usid) == <<srv6_usid>>

\* 'segs': [expanded_usid]
LinuxSegs(srv6_usid) == <<Linux_expand_srv6_usid(srv6_usid)>>

\* LinuxRouteProgrammer.program_route(destination_prefix, srv6_usid,
\*     outbound_interface, bsid, table_id)
Linux_program_route(k, destination_prefix, srv6_usid, outbound_interface, table_id, fault) ==
    IF NotPrefix(destination_prefix)
    THEN Outcome3(FALSE, <<"destination_prefix is required">>, k, <<>>, FALSE)
    ELSE IF NotText(outbound_interface)
    THEN Outcome3(FALSE, <<"outbound_interface is required">>, k, <<>>, FALSE)
    ELSE IF ~IpNetworkOk(destination_prefix)
    THEN Outcome3(FALSE, <<"Invalid destination prefix">>, k, <<>>, FALSE)
    ELSE IF ~IsIPv6Address(Linux_expand_srv6_usid(srv6_usid))
    THEN Outcome3(FALSE, <<"Invalid SRv6 USID">>, k, <<>>, FALSE)
    ELSE IF LinkLookup(Val(outbound_interface)) = <<>>
    THEN Outcome3(FALSE, <<"list index out of range">>, k, <<>>, FALSE)
    ELSE
      LET table == LinuxTable(table_id)
          net   == IpNetwork(destination_prefix)
          encap == [type |-> "seg6", mode |-> "encap", segs |-> LinuxSegs(srv6_usid)]
          k1    == KernelAfterDel(k, table, net, fault)
          new   == [table |-> table, dst |-> net,
                    oif |-> LinkLookup(Val(outbound_interface))[1], encap |-> encap]
          del   == IF fault = "route_del" \/ KernelMatches(k, table, net) = {}
                   THEN EvRaised("route_del", table) ELSE Ev("route_del", table)
          delFaulted == fault = "route_del" /\ KernelMatches(k, table, net) # {}
      IN  IF fault = "route_add" \/ KernelMatches(k1, table, net) # {}
          THEN Outcome3(FALSE, <<"route add failed">>, k1,
                        <<del, EvRaised("route_add", table)>>,
                        fault = "route_add" \/ delFaulted)
          ELSE Outcome3(TRUE,
                        <<"programmed", Val(destination_prefix),
                          Linux_expand_srv6_usid(srv6_usid), table>>,
                        k1 \cup {new}, <<del, Ev("route_add", table)>>, delFaulted)

-----------------------------------------------------------------------------
(* Software dataplane backend: VPPRouteProgrammer over vpp_papi *)

\* mutant: the exception of a dataplane call is not turned into (False, ...)
VppOutcomeSuccess(success, message, p, s, events, faulted) ==
    [success |-> TRUE, message |-> message, policies |-> p, steering |-> s,
     events |-> events, faulted |-> faulted]

VppOutcome(success, message, p, s, events, faulted) ==
    [success |-> success, message |-> message, policies |-> p, steering |-> s,
     events |-> events, faulted |-> faulted]

\* vpp.api.sr_policy_add(**sr_policy_add): the policy of that binding SID is
\* created, or replaced
PoliciesAfterAdd(p, pol) == {q \in p : q.bsid_addr # pol.bsid_addr} \cup {pol}

\* vpp.api.sr_steering_add_del(is_del=0, ...): the rule for that prefix in
\* that table is bound to the binding SID
SteeringAfterAdd(s, rule) ==
    {q \in s : ~(q.table_id = rule.table_id /\ q.prefix = rule.prefix)} \cup {rule}

\* mutant: the policy carries the identifier without expansion
VppSidsRaw(srv6_usid) == <<srv6_usid>>

\* 'sids': [ipaddress.IPv6Address(expanded_usid).packed]
VppSids(srv6_usid) == <<Packed(VPP_expand_srv6_usid(srv6_usid))>>

\* table_id = kwargs.get('table_id', 0): the caller always passes table_id
VppTable(table_id) == table_id

\* VPPRouteProgrammer.program_route(destination_prefix, srv6_usid,
\*     outbound_interface, bsid, table_id)
VPP_program_route(p, s, destination_prefix, srv6_usid, bsid, table_id, fault) ==
    IF NotParts(bsid)
    THEN VppOutcome(FALSE, <<"BSID is required for VPP routes">>, p, s, <<>>, FALSE)
    ELSE IF ~IpNetworkOk(destination_prefix)
    THEN VppOutcome(FALSE, <<"Invalid destination prefix">>, p, s, <<>>, FALSE)
    ELSE IF ~IsIPv6Address(VPP_expand_srv6_usid(srv6_usid))
    THEN VppOutcome(FALSE, <<"Invalid SRv6 USID">>, p, s, <<>>, FALSE)
    ELSE IF ~IsIPv6Address(Val(bsid))
    THEN VppOutcome(FALSE, <<"invalid bsid address">>, p, s, <<>>, FALSE)
    ELSE
      LET table == VppTable(table_id)
          net   == IpNetwork(destination_prefix)
          pol   == [bsid_addr |-> Packed(Val(bsid)), weight |-> 1, is_encap |-> 1,
                    is_spray |-> 0, fib_table |-> table,
                    sids |-> [num_sids |-> 1, sids |-> VppSids(srv6_usid)]]
          rule  == [is_del |-> 0, bsid_addr |-> Packed(Val(bsid)), table_id |-> table,
                    prefix |-> [address |-> net.addr, len |-> net.len],
                    traffic_type |-> 3]
          p1    == PoliciesAfterAdd(p, pol)
      IN  IF fault = "sr_policy_add"
          THEN VppOutcome(FALSE, <<"sr_policy_add failed">>, p, s,
                          <<EvRaised("sr_policy_add", table)>>, TRUE)
          ELSE IF fault = "sr_steering_add"
          THEN VppOutcome(FALSE, <<"sr_steering_add_del failed">>, p1, s,
                          <<Ev("sr_policy_add", table),
                            EvRaised("sr_steering_add", table)>>,
                          TRUE)
          ELSE VppOutcome(TRUE,
                          <<"programmed", Val(destination_prefix),
                            VPP_expand_srv6_usid(srv6_usid), table>>,
                          p1, SteeringAfterAdd(s, rule),
                          <<Ev("sr_policy_add", table), Ev("sr_steering_add", table)>>,
                          FALSE)

-----------------------------------------------------------------------------
(* Backend Selector: RouteProgrammerFactory *)

\* platform.lower(), on the platform names of the model
Lower(platform) ==
    IF platform \in {"linux", "Linux", "LINUX"} THEN "linux"
    ELSE IF platform \in {"vpp", "VPP", "Vpp"} THEN "vpp"
    ELSE platform

\* mutant: a backend is handed out whatever the platform, the privilege and
\* the connection are
get_programmer_any(platform, root, fault) ==
    [ok |-> TRUE, backend |-> IF Lower(platform) = "vpp" THEN "vpp" ELSE "linux",
     error |-> <<>>]

\* RouteProgrammerFactory.get_programmer(platform), with the constructors of
\* the two backends: [ok, backend, error]
get_programmer(platform, root, fault) ==
    IF Lower(platform) = "linux"
    THEN IF root THEN [ok |-> TRUE, backend |-> "linux", error |-> <<>>]
         ELSE [ok |-> FALSE, backend |-> "linux",
               error |-> <<"PermissionError", "Root privileges required">>]
    ELSE IF Lower(platform) = "vpp"
    THEN IF fault = "connect"
         THEN [ok |-> FALSE, backend |-> "vpp",
               error |-> <<"RuntimeError", "Failed to connect to VPP">>]
         ELSE [ok |-> TRUE, backend |-> "vpp", error |-> <<>>]
    ELSE [ok |-> FALSE, backend |-> "none",
          error |-> <<"ValueError", "Unsupported platform">>]

-----------------------------------------------------------------------------
(* Outcome Aggregator and the per-route body of the two walks *)

\* the dataplane as one value
Dataplane(k, p, s) == [kernel |-> k, policies |-> p, steering |-> s]

\* the result of the body of the loop for one route: the Outcome appended (or
\* the exception that escaped the handler), the dataplane after it, the
\* operations issued, and whether the route object received table_id
Body(escaped, outcome, dp, events, faulted, marked) ==
    [escaped |-> escaped, outcome |-> outcome, dp |-> dp, events |-> events,
     faulted |-> faulted, marked |-> marked]

\* mutant: a route without a name is reported under the empty name
NameOrEmpty(route) == IF Has(route.name) THEN Val(route.name) ELSE ""

\* route.get('name', 'unknown')
NameOrUnknown(route) == IF Has(route.name) THEN Val(route.name) ELSE "unknown"

\* results.append({'name': ..., 'status': 'error', 'error': f"Error: {e}"})
ErrorOutcome(route, err) ==
    [name |-> NameOrUnknown(route), status |-> "error", error |-> err,
     data |-> <<>>, message |-> <<>>]

\* results.append({'name': route['name'], 'status': 'success', ...})
SuccessOutcome(route, data, message) ==
    [name |-> Val(route.name), status |-> "success", error |-> <<>>,
     data |-> <<data>>, message |-> message]

\* the handler of a non-mapping entry calls route.get on it: AttributeError
\* leaves the handler and ends the call
NotADict == <<"AttributeError", "'str' object has no attribute 'get'">>

\* requests.get(final_url): the operation and the service's response
PathRequest(route) ==
    [op |-> "path_request", table |-> <<>>,
     arg |-> <<Val(route.graph), route.metric, Val(route.source), Val(route.destination)>>]

\* RouteProgrammerFactory.get_programmer(platform) was called
Selected == [op |-> "select", table |-> <<>>, arg |-> <<>>]

\* mutant: the route is installed without asking whether the response
\* carried an identifier
UsidMissingNever(response) == FALSE

\* mutant: only a response without the key counts as missing (is None)
UsidMissingNoneOnly(response) == ~Has(response.usid)

\* if not srv6_usid: None and the empty string
UsidMissing(response) ==
    ~Has(response.usid) \/ Val(response.usid) = <<"">>

\* the try block of _process_address_family for one route
ProcessRoute(route, platform, table_id, root, service, dp, fault) ==
    IF route.type # "dict"
    THEN Body(TRUE, NotADict, dp, <<>>, FALSE, FALSE)
    ELSE IF ~Has(route.graph)
    THEN Body(FALSE, ErrorOutcome(route, <<"KeyError", "graph">>), dp, <<>>, FALSE, TRUE)
    ELSE IF ~Has(route.source)
    THEN Body(FALSE, ErrorOutcome(route, <<"KeyError", "source">>), dp, <<>>, FALSE, TRUE)
    ELSE IF ~Has(route.destination)
    THEN Body(FALSE, ErrorOutcome(route, <<"KeyError", "destination">>), dp, <<>>,
              FALSE, TRUE)
    ELSE LET answer == service[Val(route.graph)] IN
    IF ~answer.ok
    THEN Body(FALSE, ErrorOutcome(route, <<"RequestException", "API request failed">>),
              dp, <<PathRequest(route)>>, FALSE, TRUE)
    ELSE IF UsidMissing(answer)
    THEN Body(FALSE, ErrorOutcome(route, <<"ValueError", "No SRv6 USID received from API">>),
              dp, <<PathRequest(route)>>, FALSE, TRUE)
    ELSE
      LET sel == get_programmer(platform, root, fault)
          pre == <<PathRequest(route), Selected>>
      IN
      IF ~sel.ok
      THEN Body(FALSE, ErrorOutcome(route, sel.error), dp, pre, fault = "connect", TRUE)
      ELSE IF sel.backend = "linux"
      THEN LET r == Linux_program_route(dp.kernel, route.destination_prefix,
                        Val(answer.usid), route.outbound_interface, table_id, fault)
               after == Dataplane(r.kernel, dp.policies, dp.steering)
           IN  IF ~r.success
               THEN Body(FALSE,
                         ErrorOutcome(route, <<"Exception", "Route programming failed">>
                                             \o r.message),
                         after, pre \o r.events, r.faulted, TRUE)
               ELSE IF ~Has(route.name)
               THEN Body(FALSE, ErrorOutcome(route, <<"KeyError", "name">>),
                         after, pre \o r.events, r.faulted, TRUE)
               ELSE Body(FALSE, SuccessOutcome(route, answer, r.message),
                         after, pre \o r.events, r.faulted, TRUE)
      ELSE LET r == VPP_program_route(dp.policies, dp.steering,
                        route.destination_prefix, Val(answer.usid), route.bsid,
                        table_id, fault)
               after == Dataplane(dp.kernel, r.policies, r.steering)
           IN  IF ~r.success
               THEN Body(FALSE,
                         ErrorOutcome(route, <<"Exception", "Route programming failed">>
                                             \o r.message),
                         after, pre \o r.events, r.faulted, TRUE)
               ELSE IF ~Has(route.name)
               THEN Body(FALSE, ErrorOutcome(route, <<"KeyError", "name">>),
                         after, pre \o r.events, r.faulted, TRUE)
               ELSE Body(FALSE, SuccessOutcome(route, answer, r.message),
                         after, pre \o r.events, r.faulted, TRUE)

\* the try block of _delete_address_family for one route: neither backend
\* has a delete_route method, so the call on the selected backend raises
\* AttributeError, which the handler turns into an error Outcome
DeleteRoute(route, platform, table_id, root, dp, fault) ==
    IF route.type # "dict"
    THEN Body(TRUE, NotADict, dp, <<>>, FALSE, FALSE)
    ELSE
      LET sel == get_programmer(platform, root, fault)
      IN  IF ~sel.ok
          THEN Body(FALSE, ErrorOutcome(route, sel.error), dp, <<Selected>>,
                    fault = "connect", FALSE)
          ELSE Body(FALSE,
                    ErrorOutcome(route, <<"AttributeError",
                                          "object has no attribute 'delete_route'">>),
                    dp, <<Selected>>, FALSE, FALSE)

-----------------------------------------------------------------------------
(* Request Walker: JalapenoAPI.apply and JalapenoAPI.delete *)

\* mutant: the IPv6 routes of a VRF are walked before its IPv4 routes
FamilyOrderSwapped == <<"ipv6", "ipv4">>

\* the order of the two _process_address_family calls made for a VRF
FamilyOrder == <<"ipv4", "ipv6">>

\* af_config.get('routes', []) of VRF v (0: defaultVrf), family number f
RoutesOf(spec, v, f) ==
    IF v = 0 THEN spec.defaultVrf[FamilyOrder[f]].routes
    ELSE spec.vrfs[v][FamilyOrder[f]].routes

\* mutant: the routes of a named VRF are given the default table
TableIdDefault(spec, v) == 0

\* table_id=0 for defaultVrf, table_id=vrf.get('tableId') for a named VRF
TableIdOf(spec, v) == IF v = 0 THEN 0 ELSE Val(spec.vrfs[v].tableId)

Where(kind, v, f, i) == [kind |-> kind, v |-> v, f |-> f, i |-> i]

\* mutant: a VRF without tableId is skipped over
RECURSIVE SeekLax(_, _, _, _)
SeekLax(spec, v, f, i) ==
    IF v > Len(spec.vrfs) THEN Where("return", v, f, i)
    ELSE IF v > 0 /\ ~Has(spec.vrfs[v].tableId) THEN SeekLax(spec, v + 1, 1, 1)
    ELSE IF i <= Len(RoutesOf(spec, v, f)) THEN Where("route", v, f, i)
    ELSE IF f = 1 THEN SeekLax(spec, v, 2, 1)
    ELSE SeekLax(spec, v + 1, 1, 1)

\* where the walk is after route i-1 of family f of VRF v: at the next route
\* of the nested loops, at the raise for a VRF without tableId, or at the
\* return
RECURSIVE Seek(_, _, _, _)
Seek(spec, v, f, i) ==
    IF v > Len(spec.vrfs) THEN Where("return", v, f, i)
    ELSE IF i <= Len(RoutesOf(spec, v, f)) THEN Where("route", v, f, i)
    ELSE IF f = 1 THEN Seek(spec, v, 2, 1)
    ELSE IF v + 1 <= Len(spec.vrfs) /\ ~Has(spec.vrfs[v + 1].tableId)
    THEN Where("raise", v + 1, 1, 1)
    ELSE Seek(spec, v + 1, 1, 1)

\* the checks apply and delete make before the walk: the exception raised,
\* <<>> when there is none
Entry(d) ==
    IF d.kind # "PathRequest" THEN <<"ValueError", "Unsupported resource kind">>
    ELSE IF ~Has(d.spec) THEN <<"ValueError", "No spec found in configuration">>
    ELSE IF Val(d.spec).platform = ""
    THEN <<"ValueError", "Platform must be specified in spec">>
    ELSE <<>>

NoPos == [v |-> 0, f |-> 1, i |-> 0]

\* the walk goes on at w, returns, or raises for the VRF w.v
Land(spec, w) ==
    /\ status' = (IF w.kind = "route" THEN "walking"
                  ELSE IF w.kind = "return" THEN "returned" ELSE "raised")
    /\ error' = (IF w.kind = "raise"
                 THEN <<"ValueError", "tableId must be specified for VRF",
                        spec.vrfs[w.v].name>>
                 ELSE <<>>)
    /\ pos' = (IF w.kind = "route" THEN [v |-> w.v, f |-> w.f, i |-> w.i] ELSE NoPos)

\* route['table_id'] = table_id, on the route object of the document
Mark(d, p, table_id) ==
    IF p.v = 0
    THEN [d EXCEPT !.spec[1].defaultVrf[FamilyOrder[p.f]].routes[p.i].table_id =
                        Some(table_id)]
    ELSE [d EXCEPT !.spec[1].vrfs[p.v][FamilyOrder[p.f]].routes[p.i].table_id =
                        Some(table_id)]

Tag(events, p) ==
    [j \in 1..Len(events) |->
        [op |-> events[j].op, table |-> events[j].table, arg |-> events[j].arg,
         at |-> [v |-> p.v, af |-> FamilyOrder[p.f], i |-> p.i]]]

FaultKinds == {"none", "connect", "route_del", "route_add", "sr_policy_add",
               "sr_steering_add"}

\* apply(data) or delete(data) is called: the checks, then the walk up to
\* its first route
Call(o) ==
    /\ status # "walking"
    /\ calls < MaxCalls
    /\ calls' = calls + 1
    /\ op' = o
    /\ prev' = (IF op = "none" THEN <<>>
                ELSE <<[op |-> op, status |-> status, results |-> results,
                        dp0 |-> dp0]>>)
    /\ dp0' = Dataplane(kernel, policies, steering)
    /\ results' = <<>>
    /\ log' = <<>>
    /\ IF Entry(doc) # <<>>
       THEN status' = "raised" /\ error' = Entry(doc) /\ pos' = NoPos
       ELSE Land(Val(doc.spec), Seek(Val(doc.spec), 0, 1, 1))
    /\ UNCHANGED <<doc, euid_root, answers, flaky, kernel, policies, steering, faults>>
    /\ UNCHANGED codec_vars

Apply == Call("apply")

Delete == Call("delete")

\* mutant: a route that failed leaves no Outcome
CollectedSuccesses(res, outcome) ==
    IF outcome.status = "error" THEN res ELSE Append(res, outcome)

\* results.append(...), in the try block and in its handler
Collected(res, outcome) == Append(res, outcome)

\* the body b of the loop has run for the route at pos
Finish(b, table_id, fault) ==
    /\ fault = "none" \/ (b.faulted /\ flaky /\ faults < MaxFaults)
    /\ faults' = (IF fault = "none" THEN faults ELSE faults + 1)
    /\ kernel' = b.dp.kernel
    /\ policies' = b.dp.policies
    /\ steering' = b.dp.steering
    /\ log' = log \o Tag(b.events, pos)
    /\ doc' = (IF b.marked THEN Mark(doc, pos, table_id) ELSE doc)
    /\ IF b.escaped
       THEN /\ status' = "raised"
            /\ error' = b.outcome
            /\ results' = results
            /\ pos' = pos
       ELSE /\ results' = Collected(results, b.outcome)
            /\ Land(Val(doc.spec), Seek(Val(doc.spec), pos.v, pos.f, pos.i + 1))
    /\ UNCHANGED <<euid_root, answers, flaky, op, calls, dp0, prev>>
    /\ UNCHANGED codec_vars

\* one turn of the loop of _process_address_family
ApplyRoute ==
    /\ status = "walking"
    /\ op = "apply"
    /\ \E fault \in FaultKinds :
        LET spec == Val(doc.spec)
            t    == TableIdOf(spec, pos.v)
        IN  \E b \in {ProcessRoute(RoutesOf(spec, pos.v, pos.f)[pos.i], spec.platform,
                                     t, euid_root, answers,
                                     Dataplane(kernel, policies, steering), fault)} :
                Finish(b, t, fault)

\* one turn of the loop of _delete_address_family
RemoveRoute ==
    /\ status = "walking"
    /\ op = "delete"
    /\ \E fault \in FaultKinds :
        LET spec == Val(doc.spec)
            t    == TableIdOf(spec, pos.v)
        IN  \E b \in {DeleteRoute(RoutesOf(spec, pos.v, pos.f)[pos.i], spec.platform,
                                    t, euid_root,
                                    Dataplane(kernel, policies, steering), fault)} :
                Finish(b, t, fault)

-----------------------------------------------------------------------------
(* The documents, the path service and the host the runs start from *)

Prefix4     == [addr |-> <<10, 0, 0, 2>>, len |-> 32]        \* 10.0.0.2/32
Prefix4Net  == [addr |-> <<10, 0, 0, 0>>, len |-> 24]        \* 10.0.0.0/24
Prefix4Host == [addr |-> <<10, 0, 0, 2>>, len |-> 24]        \* 10.0.0.2/24
Prefix4Bad  == [addr |-> <<10, 0, 0>>, len |-> 24]           \* 10.0.0/24
Prefix6     == [addr |-> <<8193, 3512, 0, 0, 0, 0, 0, 0>>, len |-> 64]  \* 2001:db8::/64

Bsid1   == <<"2001", "db8", "", "1">>        \* 2001:db8::1
Bsid2   == <<"2001", "db8", "", "fc00">>     \* 2001:db8::fc00
BsidBad == <<"zz", "", "1">>                 \* zz::1

UsidShort  == <<"fc00", "0", "1", "", "">>                   \* fc00:0:1::
UsidFull   == <<"fc00", "0", "0", "0", "0", "0", "0", "1">>  \* fc00:0:0:0:0:0:0:1
UsidElided == <<"fc00", "", "1">>                            \* fc00::1
UsidBad    == <<"zz", "1", "">>                              \* zz:1:

Route(name, graph, prefix, oif, bsid) ==
    [type |-> "dict", name |-> name, graph |-> graph, metric |-> NoValue,
     source |-> Some("10.0.0.1"), destination |-> Some("10.0.0.2"),
     destination_prefix |-> prefix, outbound_interface |-> oif, bsid |-> bsid,
     table_id |-> NoValue]

\* well-formed routes, for either backend
OkRoutes ==
    << Route(Some("r1"), Some("g1"), Some(Prefix4), Some("eth0"), Some(Bsid1)),
       [Route(Some("r2"), Some("g2"), Some(Prefix6), Some("eth0"), Some(Bsid2))
           EXCEPT !.metric = Some("igp")],
       Route(Some("r3"), Some("g1"), Some(Prefix4Net), Some("eth0"), Some(Bsid1)),
       Route(Some("r4"), Some("g2"), Some(Prefix4), Some("eth0"), Some(Bsid2)) >>

\* a routes-list entry that is a bare string
BareString == [Route(NoValue, NoValue, NoValue, NoValue, NoValue) EXCEPT !.type = "str"]

\* routes that lack a field, or carry a malformed one
FieldRoutes ==
    { OkRoutes[1],
      Route(Some("noprefix"), Some("g1"), NoValue, Some("eth0"), Some(Bsid1)),
      Route(Some("hostbits"), Some("g1"), Some(Prefix4Host), Some("eth0"), Some(Bsid1)),
      Route(Some("badcidr"), Some("g1"), Some(Prefix4Bad), Some("eth0"), Some(Bsid1)),
      Route(NoValue, Some("g1"), Some(Prefix4Net), Some("eth0"), Some(Bsid2)),
      Route(Some("bare"), Some("g1"), Some(Prefix4), NoValue, NoValue),
      Route(Some("nolink"), Some("g1"), Some(Prefix4), Some("eth9"), Some(Bsid1)),
      Route(Some("empty"), Some("g1"), Some(Prefix4), Some(""), Some(<<"">>)),
      Route(Some("emptyprefix"), Some("g1"), Some(EmptyPrefix), Some("eth0"), Some(Bsid1)),
      Route(Some("badbsid"), Some("g1"), Some(Prefix4), Some("eth0"), Some(BsidBad)),
      Route(Some("nograph"), NoValue, Some(Prefix4), Some("eth0"), Some(Bsid1)),
      BareString }

VrfNames == <<"blue", "red">>

\* the tableId values of the named VRFs of a document, in input order
VrfTables ==
    { <<>>, <<Some(100)>>, <<Some(0)>>, <<Some(-1)>>, <<NoValue>>,
      <<Some(100), Some(0)>>, <<Some(100), NoValue>>, <<NoValue, Some(100)>> }

Placed(slot, route) == [slot |-> slot, route |-> route]

\* the routes placed in that slot, in their order
InSlot(placed, slot) ==
    LET sel == SelectSeq(placed, LAMBDA e : e.slot = slot)
    IN  [j \in 1..Len(sel) |-> sel[j].route]

\* a document: slot 1 and 2 are defaultVrf's ipv4 and ipv6 lists, slots
\* 2v+1 and 2v+2 those of the v-th named VRF
MkDoc(platform, tids, placed) ==
    [kind |-> "PathRequest",
     spec |-> Some(
        [platform |-> platform,
         defaultVrf |-> [ipv4 |-> [routes |-> InSlot(placed, 1)],
                         ipv6 |-> [routes |-> InSlot(placed, 2)]],
         vrfs |-> [v \in 1..Len(tids) |->
                     [name |-> VrfNames[v], tableId |-> tids[v],
                      ipv4 |-> [routes |-> InSlot(placed, 2 * v + 1)],
                      ipv6 |-> [routes |-> InSlot(placed, 2 * v + 2)]]]])]

\* the ways to put n routes into slots 1..slots, in walk order
Placements(n, slots) ==
    {p \in [1..n -> 1..slots] : \A j \in 1..(n - 1) : p[j] <= p[j + 1]}

\* well-formed routes spread over the default VRF and the named VRFs
WalkDocs ==
    UNION { UNION {
        { MkDoc(platform, tids, [k \in 1..n |-> Placed(p[k], OkRoutes[k])])
            : p \in Placements(n, 2 + 2 * Len(tids)), platform \in {"linux", "VPP"} }
        : n \in 0..MaxRoutes }
        : tids \in VrfTables }

\* n routes in defaultVrf's ipv4 list: well-formed ones, but for the j-th
FieldList(n, j, route) ==
    [k \in 1..n |-> Placed(1, IF k = j THEN route ELSE OkRoutes[k])]

\* a route of every shape among well-formed ones
FieldDocs ==
    UNION { { MkDoc(platform, <<>>, FieldList(n, j, route))
                : j \in 1..n, route \in FieldRoutes,
                  platform \in {"linux", "VPP", "bsd"} }
            : n \in 1..MaxRoutes }

\* documents the entry checks refuse
RefusedDocs ==
    { [MkDoc("linux", <<>>, <<Placed(1, OkRoutes[1])>>) EXCEPT !.kind = "Deployment"],
      [MkDoc("linux", <<>>, <<Placed(1, OkRoutes[1])>>) EXCEPT !.spec = NoValue],
      MkDoc("", <<>>, <<Placed(1, OkRoutes[1])>>) }

Response(ok, usid) == [ok |-> ok, usid |-> usid]

Responses ==
    { Response(FALSE, NoValue), Response(TRUE, NoValue), Response(TRUE, Some(<<"">>)),
      Response(TRUE, Some(UsidShort)), Response(TRUE, Some(UsidFull)),
      Response(TRUE, Some(UsidElided)), Response(TRUE, Some(UsidBad)) }

Graphs == {"g1", "g2"}

GoodService == [g \in Graphs |-> Response(TRUE, Some(UsidShort))]

\* a service whose two graphs give different identifiers
TwoPathService ==
    [g \in Graphs |-> IF g = "g1" THEN Response(TRUE, Some(UsidShort))
                      ELSE Response(TRUE, Some(UsidFull))]

\* two routes to the same prefix in the same table, resolved over different
\* graphs: the second replaces what the first installed
ReplaceDocs ==
    { MkDoc(platform, <<>>, <<Placed(1, OkRoutes[1]), Placed(1, OkRoutes[4])>>)
        : platform \in {"linux", "vpp"} }

Scenario(d, root, service, mayFail) ==
    [doc |-> d, root |-> root, service |-> service, flaky |-> mayFail]

Scenarios ==
    { Scenario(d, TRUE, GoodService, FALSE) : d \in WalkDocs }
    \cup { Scenario(d, TRUE, GoodService, TRUE) : d \in FieldDocs \cup RefusedDocs }
    \cup { Scenario(MkDoc(platform, <<>>, <<Placed(1, OkRoutes[1]), Placed(2, OkRoutes[2])>>),
                    TRUE, service, TRUE)
             : platform \in {"linux", "vpp"}, service \in [Graphs -> Responses] }
    \cup { Scenario(d, TRUE, TwoPathService, TRUE) : d \in ReplaceDocs }
    \cup { Scenario(MkDoc("Linux", <<Some(100)>>,
                          <<Placed(1, OkRoutes[1]), Placed(3, OkRoutes[2])>>),
                    FALSE, GoodService, TRUE) }

CodecIdle ==
    /\ usid_in = <<"">>
    /\ usid_out = <<>>
    /\ codec = "none"

Init ==
    /\ \E sc \in Scenarios :
        /\ doc = sc.doc
        /\ euid_root = sc.root
        /\ answers = sc.service
        /\ flaky = sc.flaky
    /\ op = "none"
    /\ status = "idle"
    /\ error = <<>>
    /\ pos = NoPos
    /\ results = <<>>
    /\ kernel = {}
    /\ policies = {}
    /\ steering = {}
    /\ log = <<>>
    /\ calls = 0
    /\ faults = 0
    /\ dp0 = Dataplane({}, {}, {})
    /\ prev = <<>>
    /\ CodecIdle

Next == Apply \/ Delete \/ ApplyRoute \/ RemoveRoute

Spec == Init /\ [][Next]_vars

-----------------------------------------------------------------------------
(* The codec alone: an identifier is expanded, and the result expanded again *)

ExpandWith(c, usid) ==
    IF c = "linux" THEN Linux_expand_srv6_usid(usid) ELSE VPP_expand_srv6_usid(usid)

WalkIdle ==
    /\ doc = MkDoc("linux", <<>>, <<>>)
    /\ euid_root = TRUE
    /\ answers = GoodService
    /\ flaky = FALSE
    /\ op = "none"
    /\ status = "idle"
    /\ error = <<>>
    /\ pos = NoPos
    /\ results = <<>>
    /\ kernel = {}
    /\ policies = {}
    /\ steering = {}
    /\ log = <<>>
    /\ calls = 0
    /\ faults = 0
    /\ dp0 = Dataplane({}, {}, {})
    /\ prev = <<>>

CodecInit ==
    /\ usid_in \in UsidStrings
    /\ codec \in {"linux", "vpp"}
    /\ usid_out = <<>>
    /\ WalkIdle

ExpandOnce ==
    /\ usid_out = <<>>
    /\ usid_out' = <<ExpandWith(codec, usid_in)>>
    /\ UNCHANGED <<usid_in, codec>>
    /\ UNCHANGED walk_vars

ExpandAgain ==
    /\ Len(usid_out) = 1
    /\ usid_out' = Append(usid_out, ExpandWith(codec, usid_out[1]))
    /\ UNCHANGED <<usid_in, codec>>
    /\ UNCHANGED walk_vars

CodecNext == ExpandOnce \/ ExpandAgain

SpecExpand == CodecInit /\ [][CodecNext]_vars

-----------------------------------------------------------------------------
(* What the claims are stated with *)

TheSpec == Val(doc.spec)

\* the platform of the document names the kernel backend, or the software one
OnKernel == Has(doc.spec) /\ TheSpec.platform \in {"linux", "Linux", "LINUX"}
OnVpp == Has(doc.spec) /\ TheSpec.platform \in {"vpp", "VPP", "Vpp"}

\* the routes of a document in the order of section 4.5, each with its place
ListAt(spec, v, af) ==
    LET routes == IF v = 0 THEN spec.defaultVrf[af].routes ELSE spec.vrfs[v][af].routes
    IN  [i \in 1..Len(routes) |-> [v |-> v, af |-> af, i |-> i, route |-> routes[i]]]

RECURSIVE RoutesFrom(_, _)
RoutesFrom(spec, v) ==
    IF v > Len(spec.vrfs) THEN <<>>
    ELSE ListAt(spec, v, "ipv4") \o ListAt(spec, v, "ipv6") \o RoutesFrom(spec, v + 1)

AllRoutes == RoutesFrom(TheSpec, 0)

\* the table a route of VRF v is to be programmed in
ExpectedTable(v) == IF v = 0 THEN Some(0) ELSE TheSpec.vrfs[v].tableId

\* the call has not raised: every route walked so far has its Outcome
Walked == status \in {"walking", "returned"}

DataplaneOps == {"route_del", "route_add", "sr_policy_add", "sr_steering_add"}

Now == Dataplane(kernel, policies, steering)

Statuses(res) == [i \in 1..Len(res) |-> res[i].status]

\* a route the kernel backend can install: every key present, a prefix that
\* is a network, a link that exists
WellFormedForKernel(route) ==
    /\ route.type = "dict"
    /\ Has(route.name) /\ Has(route.graph) /\ Has(route.source) /\ Has(route.destination)
    /\ Has(route.destination_prefix)
    /\ IsCidrText(Val(route.destination_prefix))
    /\ ~HostBitsSet(Val(route.destination_prefix))
    /\ Has(route.outbound_interface)
    /\ Val(route.outbound_interface) = "eth0"

\* the response carries a segment identifier: a non-empty string whose padded
\* form is an address
CarriesIdentifier(answer) ==
    /\ answer.ok
    /\ Has(answer.usid)
    /\ Val(answer.usid) # <<"">>
    /\ IsIPv6Address(PadParts(RStripColons(Val(answer.usid))))

-----------------------------------------------------------------------------
(* C1 *)

\* the route whose turn of the loop was the last one
LastTurn == AllRoutes[Len(results)]

\* C1: on the kernel platform, with the privilege held and no kernel call
\* failing, a well-formed route whose response carries a segment identifier u
\* gets a success Outcome, and right after its turn the table of its table id
\* holds exactly one route to its destination_prefix: through link index 2
\* (eth0), seg6 encapsulation in mode "encap", segs = [expand(u)].
C1_KernelInstall ==
    (/\ op = "apply" /\ Walked /\ results # <<>>
     /\ OnKernel /\ euid_root /\ faults = 0
     /\ WellFormedForKernel(LastTurn.route)
     /\ CarriesIdentifier(answers[Val(LastTurn.route.graph)]))
    =>
    LET route == LastTurn.route
        u     == Val(answers[Val(route.graph)].usid)
        table == Val(ExpectedTable(LastTurn.v))
        last  == results[Len(results)]
    IN  /\ last.status = "success"
        /\ last.name = Val(route.name)
        /\ last.data = <<answers[Val(route.graph)]>>
        /\ {r \in kernel : r.table = table /\ r.dst = Val(route.destination_prefix)}
             = { [table |-> table, dst |-> Val(route.destination_prefix), oif |-> 2,
                  encap |-> [type |-> "seg6", mode |-> "encap",
                             segs |-> <<PadParts(RStripColons(u))>>]] }

\* C1 witness: r2 of VRF "blue" (tableId 100) was installed from "fc00:0:1::"
C1_Witness ==
    /\ op = "apply" /\ status = "returned" /\ OnKernel
    /\ Len(results) = 2 /\ results[2].status = "success" /\ results[2].name = "r2"
    /\ LastTurn.v = 1
    /\ \E r \in kernel :
        /\ r.table = 100 /\ r.dst = Prefix6
        /\ r.encap.segs = << <<"fc00", "0", "1", "0", "0", "0", "0", "0">> >>

-----------------------------------------------------------------------------
(* C2 *)

RECURSIVE CountFrom(_, _)
CountFrom(spec, v) ==
    IF v > Len(spec.vrfs) THEN 0
    ELSE Len(spec.vrfs[v].ipv4.routes) + Len(spec.vrfs[v].ipv6.routes)
         + CountFrom(spec, v + 1)

\* the routes of the document, counted over defaultVrf, the named VRFs and
\* the two families
TotalRoutes ==
    Len(TheSpec.defaultVrf.ipv4.routes) + Len(TheSpec.defaultVrf.ipv6.routes)
    + CountFrom(TheSpec, 1)

\* C2: a call of apply or delete that returns, returns as many Outcomes as
\* the document has routes; so an apply and a delete of the same document
\* return lists of the same length.
C2_OutcomeCount ==
    /\ status = "returned" => Len(results) = TotalRoutes
    /\ (status = "returned" /\ prev # <<>> /\ prev[1].status = "returned")
         => Len(prev[1].results) = Len(results)

\* C2 witness: a delete returned after an apply returned, for a document with
\* a route in defaultVrf and one in a named VRF
C2_Witness ==
    /\ status = "returned" /\ op = "delete"
    /\ prev # <<>> /\ prev[1].op = "apply" /\ prev[1].status = "returned"
    /\ Len(results) = 2 /\ Len(prev[1].results) = 2
    /\ Len(TheSpec.vrfs) = 1
    /\ Len(TheSpec.vrfs[1].ipv6.routes) = 1
    /\ Len(TheSpec.defaultVrf.ipv4.routes) = 1

-----------------------------------------------------------------------------
(* C3 *)

NameOf(route) == IF Has(route.name) THEN Val(route.name) ELSE "unknown"

\* a route the software dataplane backend can install
WellFormedForVpp(route) ==
    /\ route.type = "dict"
    /\ Has(route.name) /\ Has(route.graph) /\ Has(route.source) /\ Has(route.destination)
    /\ Has(route.destination_prefix)
    /\ IsCidrText(Val(route.destination_prefix))
    /\ ~HostBitsSet(Val(route.destination_prefix))
    /\ Has(route.bsid)
    /\ IsIPv6Address(Val(route.bsid))

\* the Outcome of the route at place e when it is walked by itself: on an
\* empty dataplane, with no dataplane call failing
Alone(e) ==
    IF op = "apply"
    THEN ProcessRoute(e.route, TheSpec.platform, Val(ExpectedTable(e.v)), euid_root,
                      answers, Dataplane({}, {}, {}), "none").outcome
    ELSE DeleteRoute(e.route, TheSpec.platform, Val(ExpectedTable(e.v)), euid_root,
                     Dataplane({}, {}, {}), "none").outcome

\* the Outcomes that are not what the route gets by itself
Deviating(all) == {i \in 1..Len(results) : results[i] # Alone(all[i])}

\* C3: in apply and in delete, while the call has not raised, every route
\* walked has its Outcome at its own position (none dropped, none out of
\* order); an Outcome differs from the one the route gets by itself only
\* where a dataplane call failed for that route, and is then an error; a
\* document whose first route lacks destination_prefix and whose second is
\* well-formed gives exactly [error, success].
C3_FailureIsolation ==
    Walked =>
    LET all == AllRoutes
        dev == Deviating(all)
    IN  /\ status = "returned" => Len(results) = Len(all)
        /\ status = "walking" =>
            /\ Len(results) < Len(all)
            /\ all[Len(results) + 1].v = pos.v
            /\ all[Len(results) + 1].af = (IF pos.f = 1 THEN "ipv4" ELSE "ipv6")
            /\ all[Len(results) + 1].i = pos.i
        /\ \A i \in 1..Len(results) : results[i].name = NameOf(all[i].route)
        /\ Cardinality(dev) <= faults
        /\ \A i \in dev : results[i].status = "error"
        /\ (/\ op = "apply" /\ status = "returned" /\ faults = 0
            /\ Len(all) = 2
            /\ all[1].route.type = "dict"
            /\ ~Has(all[1].route.destination_prefix)
            /\ all[2].route.type = "dict"
            /\ Has(all[2].route.graph)
            /\ CarriesIdentifier(answers[Val(all[2].route.graph)])
            /\ \/ OnKernel /\ euid_root /\ WellFormedForKernel(all[2].route)
               \/ OnVpp /\ WellFormedForVpp(all[2].route))
           => Statuses(results) = <<"error", "success">>

\* C3 witness: apply returned [error, success] for a first route without
\* destination_prefix and a well-formed second one
C3_Witness ==
    /\ op = "apply" /\ status = "returned" /\ OnKernel
    /\ Len(AllRoutes) = 2
    /\ ~Has(AllRoutes[1].route.destination_prefix)
    /\ WellFormedForKernel(AllRoutes[2].route)
    /\ Statuses(results) = <<"error", "success">>
    /\ results[1].name = "noprefix" /\ results[2].name = "r2"

-----------------------------------------------------------------------------
(* C4 *)

\* C4 (as claimed): when a call raises for a named VRF without tableId, the
\* error names that VRF and no path-service request and no dataplane
\* operation has been made for any route.
C4_AbortBeforeAnyRoute ==
    (status = "raised" /\ Len(error) = 3
     /\ error[2] = "tableId must be specified for VRF")
    =>
    /\ \E v \in 1..Len(TheSpec.vrfs) :
        ~Has(TheSpec.vrfs[v].tableId) /\ error[3] = TheSpec.vrfs[v].name
    /\ \A j \in 1..Len(log) : log[j].op \notin ({"path_request"} \cup DataplaneOps)

-----------------------------------------------------------------------------
(* C5 *)

\* C5 (as claimed): on the kernel platform, delete of a route whose
\* destination_prefix has no route in the route's table gives a success
\* Outcome and leaves that table without one, also when it is the second
\* delete in a row.
C5_DeleteAbsentSucceeds ==
    (op = "delete" /\ Walked /\ OnKernel /\ euid_root)
    =>
    \A i \in 1..Len(results) :
        LET e == AllRoutes[i] IN
        (/\ Has(e.route.name)
         /\ IpNetworkOk(e.route.destination_prefix)
         /\ KernelMatches(dp0.kernel, Val(ExpectedTable(e.v)),
                          Val(e.route.destination_prefix)) = {})
        => /\ results[i].status = "success"
           /\ kernel = dp0.kernel

-----------------------------------------------------------------------------
(* C6 *)

\* C6 (as claimed): a delete that follows an apply whose Outcomes were all
\* success reports success for every route and leaves the dataplane as it
\* was before that apply.
C6_DeleteUndoesApply ==
    (/\ op = "delete" /\ status = "returned"
     /\ prev # <<>> /\ prev[1].op = "apply" /\ prev[1].status = "returned"
     /\ prev[1].results # <<>>
     /\ \A i \in 1..Len(prev[1].results) : prev[1].results[i].status = "success")
    =>
    /\ \A i \in 1..Len(results) : results[i].status = "success"
    /\ Now = prev[1].dp0

-----------------------------------------------------------------------------
(* C7 *)

\* the table ids a document declares, with 0 for the default VRF
DeclaredTables ==
    {0} \cup {Val(TheSpec.vrfs[v].tableId) :
                v \in {w \in 1..Len(TheSpec.vrfs) : Has(TheSpec.vrfs[w].tableId)}}

\* C7: every dataplane operation issued for a route carries table id 0 when
\* the route is of the default VRF and the tableId of its VRF otherwise, 0
\* included; so every entry of the dataplane is in a table the document
\* declares (never 254 by default).
C7_TableScoping ==
    Has(doc.spec) =>
    /\ \A j \in 1..Len(log) :
        log[j].op \in DataplaneOps => log[j].table = ExpectedTable(log[j].at.v)
    /\ \A r \in kernel : r.table \in DeclaredTables
    /\ \A q \in policies : q.fib_table \in DeclaredTables
    /\ \A q \in steering : q.table_id \in DeclaredTables

\* C7 witness: routes were installed in table 100 of the first named VRF and
\* in table 0 of the second, by the software dataplane backend
C7_Witness ==
    /\ OnVpp /\ status = "returned" /\ op = "apply"
    /\ Len(TheSpec.vrfs) = 2
    /\ TheSpec.vrfs[2].tableId = Some(0)
    /\ \E j \in 1..Len(log) :
        log[j].op = "sr_steering_add" /\ log[j].at.v = 1 /\ log[j].table = Some(100)
    /\ \E j \in 1..Len(log) :
        /\ log[j].op = "sr_policy_add" /\ log[j].at.v = 2 /\ log[j].at.af = "ipv6"
        /\ log[j].table = Some(0)
    /\ \E q \in steering : q.table_id = 0
    /\ \E q \in steering : q.table_id = 100

-----------------------------------------------------------------------------
(* C8 *)

\* eight non-empty hexadecimal groups, no '::'
FullyExpanded(seg) ==
    Len(seg) = FullGroups /\ \A g \in 1..Len(seg) : seg[g] \in HexTokens

\* C8 (as claimed): every segment in the dataplane, in the segs of a kernel
\* route or the sids of a policy, is written as eight non-empty hexadecimal
\* groups.
C8_SegmentsFullyExpanded ==
    /\ \A r \in kernel :
        \A j \in 1..Len(r.encap.segs) : FullyExpanded(r.encap.segs[j])
    /\ \A q \in policies :
        \A j \in 1..Len(q.sids.sids) : FullyExpanded(q.sids.sids[j])

-----------------------------------------------------------------------------
(* C9 *)

\* the groups of an identifier: its parts without the trailing separators
GroupsOf(x) ==
    IF \A i \in 1..Len(x) : x[i] = "" THEN <<"">>
    ELSE LET n == CHOOSE m \in 1..Len(x) :
                     x[m] # "" /\ \A j \in (m + 1)..Len(x) : x[j] = ""
         IN  [i \in 1..n |-> x[i]]

\* C9: expansion gives back an identifier of 8 groups unchanged; an identifier
\* of N < 8 groups, with or without trailing separators, becomes its N groups
\* followed by 8 - N zero groups; and expanding the result again changes
\* nothing.
C9_ExpandPads ==
    usid_out # <<>> =>
    LET x == usid_in
        e == usid_out[1]
        n == Len(GroupsOf(x))
    IN  /\ (Len(x) = 8 /\ x[8] # "") => e = x
        /\ n < 8 => /\ Len(e) = 8
                    /\ \A i \in 1..n : e[i] = GroupsOf(x)[i]
                    /\ \A i \in (n + 1)..8 : e[i] = "0"
        /\ Len(usid_out) = 2 => usid_out[2] = usid_out[1]

\* C9 witness: "fc00:0:fc00::" was expanded to fc00:0:fc00:0:0:0:0:0, twice
C9_Witness ==
    /\ usid_in = <<"fc00", "0", "fc00", "", "">>
    /\ usid_out = << <<"fc00", "0", "fc00", "0", "0", "0", "0", "0">>,
                     <<"fc00", "0", "fc00", "0", "0", "0", "0", "0">> >>

-----------------------------------------------------------------------------
(* C10 *)

\* the rank of a place in the order of section 4.5
Rank(all, at) ==
    CHOOSE j \in 1..Len(all) :
        all[j].v = at.v /\ all[j].af = at.af /\ all[j].i = at.i

\* C10: in apply and in delete the i-th Outcome is that of the i-th route in
\* the order default-VRF IPv4, default-VRF IPv6, then each named VRF's IPv4
\* and IPv6 routes in input order; the operations issued are in that order
\* too, and every operation issued belongs to a route whose turn has ended.
C10_WalkOrder ==
    (Has(doc.spec) /\ op # "none") =>
    LET all == AllRoutes
        ranks == [j \in 1..Len(log) |-> Rank(all, log[j].at)]
    IN  /\ Len(results) <= Len(all)
        /\ \A i \in 1..Len(results) : results[i].name = NameOf(all[i].route)
        /\ \A j \in 1..(Len(log) - 1) : ranks[j] <= ranks[j + 1]
        /\ \A j \in 1..Len(log) : ranks[j] <= Len(results)
        /\ status = "returned" => Len(results) = Len(all)

\* C10 witness: r1 in the default VRF's ipv6 list and r2 in the ipv4 list of
\* the first named VRF were installed in that order
C10_Witness ==
    /\ op = "apply" /\ status = "returned"
    /\ Len(log) >= 2
    /\ log[1].at = [v |-> 0, af |-> "ipv6", i |-> 1]
    /\ log[Len(log)].at = [v |-> 1, af |-> "ipv4", i |-> 1]
    /\ log[Len(log)].op \in DataplaneOps
    /\ Statuses(results) = <<"success", "success">>
    /\ results[1].name = "r1" /\ results[2].name = "r2"

-----------------------------------------------------------------------------
(* C11 *)

\* the operations by which a route's install is attempted: the selection of
\* the backend and the calls the backend makes
InstallOps == {"select"} \cup DataplaneOps

\* the route at a place of the document
RouteAt(at) ==
    IF at.v = 0 THEN TheSpec.defaultVrf[at.af].routes[at.i]
    ELSE TheSpec.vrfs[at.v][at.af].routes[at.i]

\* C11: a delete makes no request to the path service; in an apply, every
\* operation of a route's install comes after a path request for that same
\* route, and the response to it was successful and carried a non-empty
\* segment identifier.
C11_ResolveBeforeInstall ==
    /\ op = "delete" => \A j \in 1..Len(log) : log[j].op # "path_request"
    /\ op = "apply" =>
        \A j \in 1..Len(log) :
            log[j].op \in InstallOps =>
            LET route == RouteAt(log[j].at) IN
            /\ \E k \in 1..(j - 1) :
                /\ log[k].op = "path_request"
                /\ log[k].at = log[j].at
                /\ log[k].arg[1] = Val(route.graph)
            /\ answers[Val(route.graph)].ok
            /\ Has(answers[Val(route.graph)].usid)
            /\ Val(answers[Val(route.graph)].usid) # <<"">>

\* C11 witness: an apply installed r1 after its path request, and the delete
\* that followed walked the same route without any path request
C11_Witness ==
    /\ op = "delete" /\ status = "returned" /\ results # <<>>
    /\ log # <<>> /\ \A j \in 1..Len(log) : log[j].op = "select"
    /\ prev # <<>> /\ prev[1].op = "apply" /\ prev[1].status = "returned"
    /\ prev[1].results[1].status = "success"
    /\ kernel # {}

-----------------------------------------------------------------------------
(* C12 *)

\* the route the walk is at
Current == RoutesOf(TheSpec, pos.v, pos.f)[pos.i]

\* the turn of the current route gets as far as program_route: the route is
\* resolved and the backend of the platform can be constructed
ReachesInstall ==
    /\ op = "apply" /\ status = "walking"
    /\ Current.type = "dict"
    /\ Has(Current.graph) /\ Has(Current.source) /\ Has(Current.destination)
    /\ answers[Val(Current.graph)].ok
    /\ Has(answers[Val(Current.graph)].usid)
    /\ Val(answers[Val(Current.graph)].usid) # <<"">>
    /\ (OnKernel /\ euid_root) \/ OnVpp

\* a field the backend of the platform requires is missing or malformed
LacksRequired(route, usid) ==
    \/ ~Has(route.destination_prefix)
    \/ ~IsCidrText(Val(route.destination_prefix))
    \/ ~IsIPv6Address(PadParts(RStripColons(usid)))
    \/ OnKernel /\ (~Has(route.outbound_interface) \/ Val(route.outbound_interface) = "")
    \/ OnVpp /\ (~Has(route.bsid) \/ ~IsIPv6Address(Val(route.bsid)))

\* the operations the step has added to the log
Issued == [j \in 1..(Len(log') - Len(log)) |-> log'[Len(log) + j]]

\* C12: a turn that reaches install for a route with a required field missing
\* or malformed issues no dataplane call and leaves the kernel routes, the
\* policies and the steering rules as they were; install gives (false,
\* message), which the route's error Outcome carries.
C12_ValidatedBeforeAnyCall ==
    [][ (ReachesInstall
         /\ LacksRequired(Current, Val(answers[Val(Current.graph)].usid)))
        =>
        /\ kernel' = kernel /\ policies' = policies /\ steering' = steering
        /\ \A j \in 1..Len(Issued) : Issued[j].op \notin DataplaneOps
        /\ Len(results') = Len(results) + 1
        /\ results'[Len(results')].status = "error"
        /\ faults' = faults =>
            /\ Len(results'[Len(results')].error) = 3
            /\ results'[Len(results')].error[1] = "Exception"
            /\ results'[Len(results')].error[2] = "Route programming failed"
      ]_vars

\* C12 witness: on the software dataplane, r1 was installed and the route
\* after it, whose bsid is "zz::1", was refused without any call
C12_Witness ==
    /\ op = "apply" /\ status = "returned" /\ OnVpp /\ calls = 1
    /\ Statuses(results) = <<"success", "error">>
    /\ results[2].name = "badbsid"
    /\ results[2].error = <<"Exception", "Route programming failed", "invalid bsid address">>
    /\ Cardinality(policies) = 1 /\ Cardinality(steering) = 1
    /\ \A j \in 1..Len(log) : log[j].op \in DataplaneOps => log[j].at.i = 1

-----------------------------------------------------------------------------
(* C13 *)

\* the steering rules bound for a route's prefix in the table of its VRF
SteeringFor(e) ==
    {q \in steering :
        /\ q.table_id = Val(ExpectedTable(e.v))
        /\ q.prefix = [address |-> Val(e.route.destination_prefix).addr,
                       len |-> Val(e.route.destination_prefix).len]}

\* C13: on the software dataplane, a route whose sr_steering_add_del call
\* raised after its sr_policy_add call went through has one Outcome, at its
\* own position, and that Outcome is an error; a route with a success Outcome
\* has a steering rule bound for its prefix in its table.
C13_NoPartialSuccess ==
    (op = "apply" /\ OnVpp) =>
    LET all == AllRoutes IN
    /\ \A j \in 1..Len(log) :
        (log[j].op = "sr_steering_add" /\ log[j].arg = <<"raised">>) =>
        LET r == Rank(all, log[j].at) IN
        /\ j > 1 /\ log[j - 1].op = "sr_policy_add" /\ log[j - 1].arg = <<>>
        /\ log[j - 1].at = log[j].at
        /\ r <= Len(results)
        /\ results[r].status = "error"
        /\ results[r].name = NameOf(all[r].route)
    /\ status = "returned" => Len(results) = Len(all)
    /\ \A i \in 1..Len(results) :
        results[i].status = "success" => SteeringFor(all[i]) # {}

\* C13 witness: the policy of r1 was added, the steering call raised, and the
\* one Outcome of r1 is an error
C13_Witness ==
    /\ op = "apply" /\ status = "returned" /\ OnVpp
    /\ Len(results) = 1 /\ results[1].name = "r1" /\ results[1].status = "error"
    /\ results[1].error
         = <<"Exception", "Route programming failed", "sr_steering_add_del failed">>
    /\ Len(log) >= 2
    /\ log[Len(log)].op = "sr_steering_add" /\ log[Len(log)].arg = <<"raised">>
    /\ Cardinality(policies) = 1 /\ steering = {}

-----------------------------------------------------------------------------
(* C14 *)

\* the bits of element g of an address that a prefix of that length keeps
KeptBits(p, g) ==
    LET w    == ElemBits(p.addr)
        left == p.len - (g - 1) * w
    IN  IF left <= 0 THEN 0 ELSE IF left >= w THEN w ELSE left

\* the canonical network form of a prefix: its host bits cleared
Canonical(p) ==
    [addr |-> [g \in 1..Len(p.addr) |->
                 LET unit == Pow2(ElemBits(p.addr) - KeptBits(p, g))
                 IN  (p.addr[g] \div unit) * unit],
     len  |-> p.len]

\* the route has every field either backend needs, and its prefix is the
\* text of an address with a length
InstallableButForHostBits(route) ==
    /\ route.type = "dict"
    /\ Has(route.name) /\ Has(route.graph) /\ Has(route.source) /\ Has(route.destination)
    /\ Has(route.destination_prefix)
    /\ IsCidrText(Val(route.destination_prefix))
    /\ Has(route.outbound_interface) /\ Val(route.outbound_interface) = "eth0"
    /\ Has(route.bsid) /\ IsIPv6Address(Val(route.bsid))

\* C14 (as claimed): a route whose destination_prefix parses as an address
\* with a length is installed, host bits set or not, and right after its
\* turn the dataplane holds its canonical network form: the kernel route's
\* dst, or the steering rule's prefix.
C14_HostBitsCleared ==
    (/\ op = "apply" /\ Walked /\ results # <<>> /\ faults = 0
     /\ (OnKernel /\ euid_root) \/ OnVpp
     /\ InstallableButForHostBits(LastTurn.route)
     /\ CarriesIdentifier(answers[Val(LastTurn.route.graph)]))
    =>
    LET net   == Canonical(Val(LastTurn.route.destination_prefix))
        table == Val(ExpectedTable(LastTurn.v))
    IN  /\ results[Len(results)].status = "success"
        /\ OnKernel => \E r \in kernel : r.table = table /\ r.dst = net
        /\ OnVpp => \E q \in steering :
                        /\ q.table_id = table
                        /\ q.prefix = [address |-> net.addr, len |-> net.len]

-----------------------------------------------------------------------------
(* C15 *)

\* C15 (as claimed): every dataplane operation issued by apply or delete
\* carries a table id that is not negative, and so does every entry of the
\* dataplane.
C15_TableIdNonNegative ==
    /\ \A j \in 1..Len(log) : log[j].op \in DataplaneOps => Val(log[j].table) >= 0
    /\ \A r \in kernel : r.table >= 0
    /\ \A q \in policies : q.fib_table >= 0
    /\ \A q \in steering : q.table_id >= 0

-----------------------------------------------------------------------------
(* C16 *)

\* a route object without the key 'name'
Nameless(route) == route.type = "dict" /\ ~Has(route.name)

\* the document has nothing that ends a call early: every entry is a
\* mapping and every named VRF has its tableId
NothingAborts ==
    /\ Has(doc.spec) /\ Entry(doc) = <<>>
    /\ \A v \in 1..Len(TheSpec.vrfs) : Has(TheSpec.vrfs[v].tableId)
    /\ \A i \in 1..Len(AllRoutes) : AllRoutes[i].route.type = "dict"

\* C16: in apply and in delete a route without a name has one Outcome, at
\* its own position, under the name "unknown"; the routes after it have
\* theirs, and the call does not raise because of it.
C16_UnknownName ==
    (NothingAborts /\ op # "none") =>
    LET all == AllRoutes IN
    /\ status # "raised"
    /\ status = "returned" => Len(results) = Len(all)
    /\ Len(results) <= Len(all)
    /\ \A i \in 1..Len(results) :
        IF Nameless(all[i].route) THEN results[i].name = "unknown"
        ELSE results[i].name = Val(all[i].route.name)

\* C16 witness: a delete and the apply before it both returned the Outcomes
\* "unknown" and "r2" for a nameless route followed by r2
C16_Witness ==
    /\ op = "delete" /\ status = "returned"
    /\ Len(results) = 2
    /\ Nameless(AllRoutes[1].route)
    /\ results[1].name = "unknown" /\ results[2].name = "r2"
    /\ prev # <<>> /\ prev[1].op = "apply" /\ prev[1].status = "returned"
    /\ Len(prev[1].results) = 2
    /\ prev[1].results[1].name = "unknown" /\ prev[1].results[1].status = "error"
    /\ prev[1].results[2].name = "r2" /\ prev[1].results[2].status = "success"

-----------------------------------------------------------------------------
(* C17 *)

\* the kernel routes to the prefix of the route at place e, in its table
KernelFor(e) ==
    KernelMatches(kernel, Val(ExpectedTable(e.v)), Val(e.route.destination_prefix))

\* C17: on the kernel platform, when no kernel call is refused for a reason
\* other than the route's absence, a well-formed route whose response
\* carries an identifier is installed with success whether or not its table
\* already held a route to its prefix; a table holds exactly one route to
\* the prefix of every route installed, and right after a route's turn that
\* one carries the segment resolved for it; and an apply that follows an
\* apply of the same document gives the same Outcomes and leaves the routing
\* tables as the first one left them.
C17_KernelInstallIdempotent ==
    (op = "apply" /\ OnKernel /\ euid_root /\ faults = 0 /\ NothingAborts) =>
    LET all == AllRoutes IN
    /\ \A i \in 1..Len(results) :
        /\ (/\ WellFormedForKernel(all[i].route)
            /\ CarriesIdentifier(answers[Val(all[i].route.graph)]))
           => results[i].status = "success"
        /\ results[i].status = "success" => Cardinality(KernelFor(all[i])) = 1
    /\ (results # <<>> /\ results[Len(results)].status = "success") =>
        \A r \in KernelFor(all[Len(results)]) :
            r.encap.segs
              = <<PadParts(RStripColons(
                    Val(answers[Val(all[Len(results)].route.graph)].usid)))>>
    /\ (status = "returned" /\ prev # <<>> /\ prev[1].op = "apply"
        /\ prev[1].status = "returned")
       => /\ results = prev[1].results
          /\ kernel = dp0.kernel

\* C17 witness: the second apply of r1 and r4, two routes to 10.0.0.2/32 in
\* table 0, returned two successes as the first did; each install found a
\* route in place, and the table holds the one route with r4's segment
C17_Witness ==
    /\ op = "apply" /\ status = "returned" /\ OnKernel /\ faults = 0
    /\ prev # <<>> /\ prev[1].op = "apply"
    /\ Statuses(prev[1].results) = <<"success", "success">>
    /\ Statuses(results) = <<"success", "success">>
    /\ results[1].name = "r1" /\ results[2].name = "r4"
    /\ \A j \in 1..Len(log) : log[j].op = "route_del" => log[j].arg = <<>>
    /\ kernel = dp0.kernel
    /\ Cardinality(kernel) = 1
    /\ \A r \in kernel : r.dst = Prefix4 /\ r.encap.segs = <<UsidFull>>

-----------------------------------------------------------------------------
(* C18 *)

\* the platform names no backend, or names the kernel backend in a process
\* without the privilege
SelectionFails ==
    \/ Lower(TheSpec.platform) \notin {"linux", "vpp"}
    \/ OnKernel /\ ~euid_root

\* the error the selection ends with for such a document
SelectionError ==
    IF OnKernel THEN <<"PermissionError", "Root privileges required">>
    ELSE <<"ValueError", "Unsupported platform">>

\* the turn of the route gets as far as the selection of the backend
NeedsBackend(route) ==
    \/ op = "delete"
    \/ /\ Has(route.graph) /\ Has(route.source) /\ Has(route.destination)
       /\ answers[Val(route.graph)].ok
       /\ Has(answers[Val(route.graph)].usid)
       /\ Val(answers[Val(route.graph)].usid) # <<"">>

\* the operations of the log of that name, issued for the route of rank i
OpsOf(all, names, i) ==
    {j \in 1..Len(log) : log[j].op \in names /\ Rank(all, log[j].at) = i}

\* C18: when the backend cannot be selected or constructed (unknown
\* platform, no root privilege, connection refused), the call does not
\* raise; every route that needs the backend has one selection of its own
\* and an error Outcome carrying the selection's error, no dataplane call is
\* made for it, and the dataplane stays as it was.
C18_SelectionFailureIsolated ==
    (NothingAborts /\ op # "none") =>
    LET all == AllRoutes IN
    /\ SelectionFails =>
        /\ status # "raised"
        /\ status = "returned" => Len(results) = Len(all)
        /\ Now = dp0
        /\ \A i \in 1..Len(results) :
            /\ results[i].status = "error"
            /\ OpsOf(all, DataplaneOps, i) = {}
            /\ NeedsBackend(all[i].route) =>
                /\ results[i].error = SelectionError
                /\ Cardinality(OpsOf(all, {"select"}, i)) = 1
    /\ OnVpp =>
        \A i \in 1..Len(results) :
            (results[i].status = "error" /\ results[i].error[1] = "RuntimeError") =>
            /\ OpsOf(all, DataplaneOps, i) = {}
            /\ Cardinality(OpsOf(all, {"select"}, i)) = 1
            /\ status # "raised"

\* C18 witness: without root, the apply of r1 (default VRF) and r2 (VRF
\* blue) returned one PermissionError Outcome for each, after a selection
\* for each, and the routing tables are empty
C18_Witness ==
    /\ op = "apply" /\ status = "returned" /\ OnKernel /\ ~euid_root
    /\ Len(results) = 2
    /\ results[1].name = "r1" /\ results[2].name = "r2"
    /\ results[1].error = <<"PermissionError", "Root privileges required">>
    /\ results[2].error = <<"PermissionError", "Root privileges required">>
    /\ Cardinality({j \in 1..Len(log) : log[j].op = "select"}) = 2
    /\ kernel = {}

-----------------------------------------------------------------------------
(* C19 *)

\* C19 (as claimed): a turn of apply that appends an error Outcome leaves
\* the kernel routes, the policies and the steering rules as they were
\* before the turn.
C19_ErrorLeavesDataplane ==
    [][ (/\ op = "apply" /\ status = "walking"
         /\ Len(results') = Len(results) + 1
         /\ results'[Len(results')].status = "error")
        => (kernel' = kernel /\ policies' = policies /\ steering' = steering)
      ]_vars

-----------------------------------------------------------------------------
(* C20 *)

\* C20 (as claimed): an entry of a routes list that is not a mapping gets one
\* error Outcome at its position, and the call does not raise because of
\* it: it goes on with the routes after it and returns.
C20_NonMappingIsolated ==
    (/\ Has(doc.spec) /\ Entry(doc) = <<>> /\ op # "none"
     /\ \A v \in 1..Len(TheSpec.vrfs) : Has(TheSpec.vrfs[v].tableId))
    =>
    LET all == AllRoutes IN
    /\ status # "raised"
    /\ status = "returned" => Len(results) = Len(all)
    /\ \A i \in 1..Len(results) :
        all[i].route.type # "dict" => results[i].status = "error"

====
